---- MODULE Spec2Model ----
(***************************************************************************)
(* Attribute encoding of aries-credx-framework-rs: the AttributeEncoder    *)
(* trait (src/src/encoding/mod.rs) over its two backends, the BLS12-381    *)
(* field element (bls381_fieldelem.rs) and the OpenSSL BIGNUM              *)
(* (rsa_native.rs).                                                        *)
(*                                                                         *)
(* The domain integers are 255..308 bits wide and TLC's integers are 32    *)
(* bits wide, so every big integer of the program (num_bigint::BigInt,     *)
(* openssl BigNum, amcl BigNum, and the i64/u64/isize/usize machine words) *)
(* is an arbitrary-precision natural: a little-endian sequence of limbs in *)
(* base LIMB without leading zero limbs (zero is the empty sequence).  A   *)
(* signed integer is a record [neg, mag].  The limb operators are written  *)
(* without recursion (carries are looked up, not rippled) so that their    *)
(* evaluation depth does not grow with the length of the numbers.          *)
(***************************************************************************)
EXTENDS Integers, Sequences, FiniteSets, TLC

\* ------------------------------------------------------------------------
\* Arbitrary-precision naturals
\* ------------------------------------------------------------------------

LIMB == 10 ^ 4

Limb(a, i) == IF 1 <= i /\ i <= Len(a) THEN a[i] ELSE 0

MaxOf(p, q) == IF p >= q THEN p ELSE q

\* a without its leading (most significant) zero limbs
Norm(a) ==
    LET n == Len(a)
        d == CHOOSE k \in 0..n :
                 /\ k = n \/ a[n - k] # 0
                 /\ \A m \in 0..(k - 1) : a[n - m] = 0
    IN  SubSeq(a, 1, n - d)

\* a machine-sized n >= 0 as a natural
NatOf(n) ==
    Norm(<<n % LIMB, (n \div LIMB) % LIMB, n \div (LIMB * LIMB)>>)

\* the carry (0 or 1) into limb i of a sum whose limb sums are raw[1..]:
\* the nearest lower limb that is not LIMB - 1 decides it
CarryIn(raw, i) ==
    LET d == CHOOSE k \in 1..i :
                 /\ k = i \/ raw[i - k] # LIMB - 1
                 /\ \A m \in 1..(k - 1) : raw[i - m] = LIMB - 1
    IN  IF d < i /\ raw[i - d] >= LIMB THEN 1 ELSE 0

AddN(a, b) ==
    LET n   == MaxOf(Len(a), Len(b)) + 1
        raw == [i \in 1..n |-> Limb(a, i) + Limb(b, i)]
    IN  Norm([i \in 1..n |-> (raw[i] + CarryIn(raw, i)) % LIMB])

\* the borrow (0 or 1) out of limb i of a difference with limb differences raw
BorrowIn(raw, i) ==
    LET d == CHOOSE k \in 1..i :
                 /\ k = i \/ raw[i - k] # 0
                 /\ \A m \in 1..(k - 1) : raw[i - m] = 0
    IN  IF d < i /\ raw[i - d] < 0 THEN 1 ELSE 0

\* a - b for a >= b
SubN(a, b) ==
    LET n   == Len(a)
        raw == [i \in 1..n |-> a[i] - Limb(b, i)]
    IN  Norm([i \in 1..n |-> (raw[i] - BorrowIn(raw, i) + LIMB) % LIMB])

\* -1, 0, 1 as a < b, a = b, a > b
CmpN(a, b) ==
    IF Len(a) < Len(b) THEN -1
    ELSE IF Len(a) > Len(b) THEN 1
    ELSE LET n == Len(a)
             d == CHOOSE k \in 0..n :
                      /\ k = n \/ a[n - k] # b[n - k]
                      /\ \A m \in 0..(k - 1) : a[n - m] = b[n - m]
         IN  IF d = n THEN 0 ELSE IF a[n - d] < b[n - d] THEN -1 ELSE 1

LtN(a, b) == CmpN(a, b) = -1
LeN(a, b) == CmpN(a, b) # 1

\* a * LIMB^k
ShiftLimbs(a, k) == IF a = <<>> THEN <<>> ELSE [i \in 1..k |-> 0] \o a

\* a * k for a machine-sized k, 0 <= k <= 200000 (limb * k stays below 2^31):
\* the limb products are split into their base-LIMB digits, which are added
MulSmall(a, k) ==
    IF a = <<>> \/ k = 0 THEN <<>> ELSE
    LET n   == Len(a)
        lo  == [i \in 1..n |-> (a[i] * k) % LIMB]
        mid == [i \in 1..n |-> ((a[i] * k) \div LIMB) % LIMB]
        hi  == [i \in 1..n |-> (a[i] * k) \div (LIMB * LIMB)]
    IN  IF k <= LIMB THEN AddN(Norm(lo), ShiftLimbs(Norm(mid), 1))
        ELSE AddN(AddN(Norm(lo), ShiftLimbs(Norm(mid), 1)), ShiftLimbs(Norm(hi), 2))

\* a \div k and a % k for a machine-sized k that divides LIMB
DivSmall(a, k) ==
    LET n == Len(a)
    IN  Norm([i \in 1..n |-> (a[i] \div k) + (Limb(a, i + 1) % k) * (LIMB \div k)])

ModSmall(a, k) == Limb(a, 1) % k

\* a * 2^n, seventeen doublings at a time
RECURSIVE MulPow2(_, _)
MulPow2(a, n) ==
    IF a = <<>> THEN <<>>
    ELSE IF n >= 17 THEN MulPow2(MulSmall(a, 2 ^ 17), n - 17) ELSE MulSmall(a, 2 ^ n)

\* a * 5^n
RECURSIVE MulPow5(_, _)
MulPow5(a, n) ==
    IF a = <<>> THEN <<>>
    ELSE IF n >= 7 THEN MulPow5(MulSmall(a, 5 ^ 7), n - 7) ELSE MulSmall(a, 5 ^ n)

\* a * 10^n
MulPow10(a, n) == ShiftLimbs(MulSmall(a, 10 ^ (n % 4)), n \div 4)

\* a \div 10^n
DivPow10(a, n) ==
    DivSmall(SubSeq(a, (n \div 4) + 1, Len(a)), 10 ^ (n % 4))

\* the number of decimal digits of a (0 for zero)
DecLen(a) ==
    IF a = <<>> THEN 0
    ELSE LET t == a[Len(a)]
         IN  4 * (Len(a) - 1)
             + (IF t >= 1000 THEN 4 ELSE IF t >= 100 THEN 3 ELSE IF t >= 10 THEN 2 ELSE 1)

\* r - m when m <= r, else r
ModStep(r, m) == IF LtN(r, m) THEN r ELSE SubN(r, m)

\* a mod m by binary long division: ms = m * 2^k is taken off for k = n .. 0
RECURSIVE ModLoop(_, _, _)
ModLoop(a, ms, k) ==
    IF a = <<>> \/ ms = <<>> \/ k < 0 THEN a
    ELSE ModLoop(ModStep(a, ms), DivSmall(ms, 2), k - 1)

\* a mod m for m # 0 (2^10 exceeds 10^3, so a < m * 2^(n+1) at the start)
ModN(a, m) ==
    IF LtN(a, m) THEN a
    ELSE LET n == ((DecLen(a) - DecLen(m) + 1) * 10) \div 3
         IN  ModLoop(a, MulPow2(m, n), n)

\* a * 256 + b and friends, for the byte and hex-digit conversions
MulAdd(a, k, b) == AddN(MulSmall(a, k), NatOf(b))

\* 2^n
Pow2(n) == MulPow2(<<1>>, n)

\* signed integers: [neg, mag], zero never negative
SInt(neg, mag) == [neg |-> neg /\ mag # <<>>, mag |-> mag]

Pos(mag) == SInt(FALSE, mag)

NegI(a) == SInt(~a.neg, a.mag)

AddI(a, b) ==
    IF a.neg = b.neg THEN SInt(a.neg, AddN(a.mag, b.mag))
    ELSE IF LeN(b.mag, a.mag) THEN SInt(a.neg, SubN(a.mag, b.mag))
    ELSE SInt(b.neg, SubN(b.mag, a.mag))

SubI(a, b) == AddI(a, NegI(b))

\* a < b
LtI(a, b) ==
    IF a.neg # b.neg THEN a.neg
    ELSE IF a.neg THEN LtN(b.mag, a.mag) ELSE LtN(a.mag, b.mag)

\* ------------------------------------------------------------------------
\* Machine words
\* ------------------------------------------------------------------------

\* the 64-bit target the tests are written for (isize::MAX as u64, timestamp as usize)
WordBits == 64

ISIZE_MAX == Pos(SubN(Pow2(WordBits - 1), <<1>>))
ISIZE_MIN == SInt(TRUE, Pow2(WordBits - 1))
USIZE_MAX == SubN(Pow2(WordBits), <<1>>)

\* `v as u64` of a signed 64-bit v: the two's complement bit pattern
AsU64(v) == IF v.neg THEN SubN(Pow2(WordBits), v.mag) ELSE v.mag

\* `-v` of an isize.  -isize::MIN does not fit: it panics ("attempt to negate
\* with overflow") in a build with overflow checks and wraps to isize::MIN
\* without them.
NegIsize(v, checks) ==
    IF v = ISIZE_MIN
    THEN (IF checks THEN [panic |-> TRUE, val |-> v] ELSE [panic |-> FALSE, val |-> v])
    ELSE [panic |-> FALSE, val |-> NegI(v)]

\* ------------------------------------------------------------------------
\* Bytes and hexadecimal literals
\* ------------------------------------------------------------------------

\* the big-endian bytes of n before acc; q is n \div 16, so that the lowest
\* byte of n is its two lowest hexadecimal digits n % 16 and q % 16
RECURSIVE BytesLoop(_, _, _)
BytesLoop(n, q, acc) ==
    IF n = <<>> THEN acc
    ELSE IF Len(acc) < 0 \/ Len(q) < 0 THEN acc
    ELSE BytesLoop(DivSmall(q, 16), DivSmall(DivSmall(q, 16), 16),
                   <<ModSmall(n, 16) + 16 * ModSmall(q, 16)>> \o acc)

\* BigUint::to_bytes_be: the big-endian bytes of n, <<0>> for zero
BytesBE(n) == IF n = <<>> THEN <<0>> ELSE BytesLoop(n, DivSmall(n, 16), <<>>)

RECURSIVE HornerLoop(_, _, _, _)
HornerLoop(ds, base, i, acc) ==
    IF i > Len(ds) THEN acc
    ELSE IF Len(acc) < 0 THEN acc
    ELSE HornerLoop(ds, base, i + 1, MulAdd(acc, base, ds[i]))

\* the natural with the big-endian digits ds in the given base
FromDigitsBE(ds, base) == HornerLoop(ds, base, 1, <<>>)

FromBytesBE(bytes) == FromDigitsBE(bytes, 256)

HexChars == <<"0", "1", "2", "3", "4", "5", "6", "7", "8", "9",
               "A", "B", "C", "D", "E", "F">>

IsHex(c) == \E k \in 1..16 : HexChars[k] = c

HexVal(c) == (CHOOSE k \in 1..16 : HexChars[k] = c) - 1

\* the length of the leading run of hexadecimal digits of the string lit
\* (a string is a sequence of one-character strings)
HexRun(lit) ==
    CHOOSE k \in 0..Len(lit) :
        /\ \A i \in 1..k : IsHex(lit[i])
        /\ k = Len(lit) \/ ~IsHex(lit[k + 1])

\* openssl BigNum::from_hex_str, that is BN_hex2bn: the value of the leading
\* run of hexadecimal digits; what follows the run is not read
from_hex_str(lit) ==
    FromDigitsBE([i \in 1..HexRun(lit) |-> HexVal(lit[i])], 16)

\* ------------------------------------------------------------------------
\* IEEE-754 doubles: [sign, exp, frac], the three bit fields
\* ------------------------------------------------------------------------

F64(sign, exp, frac) == [sign |-> sign, exp |-> exp, frac |-> frac]

ExpBias == 1023
ExpMax  == 2047
FracBitsF64 == 52
FracBitsF32 == 23
ExpBiasF32 == 127

\* std::num::FpCategory of f64::classify
classify(v) ==
    IF v.exp = ExpMax THEN (IF v.frac = <<>> THEN "Infinite" ELSE "Nan")
    ELSE IF v.exp = 0 THEN (IF v.frac = <<>> THEN "Zero" ELSE "Subnormal")
    ELSE "Normal"

is_sign_positive(v) == v.sign = 0

\* `impl From<f32> for f64` on a normal f32 with biased exponent e and 23-bit
\* mantissa m (machine-sized): exact widening
F32ToF64(sign, e, m) ==
    F64(sign, e - ExpBiasF32 + ExpBias, MulPow2(NatOf(m), FracBitsF64 - FracBitsF32))

NegF(v) == F64(1 - v.sign, v.exp, v.frac)

\* a < b for doubles that are not NaN (-0.0 and 0.0 are equal)
MagLt(a, b) == a.exp < b.exp \/ (a.exp = b.exp /\ LtN(a.frac, b.frac))
IsZeroF(v) == v.exp = 0 /\ v.frac = <<>>
LtF(a, b) ==
    IF IsZeroF(a) /\ IsZeroF(b) THEN FALSE
    ELSE IF a.sign # b.sign THEN a.sign = 1
    ELSE IF a.sign = 0 THEN MagLt(a, b) ELSE MagLt(b, a)

\* ------------------------------------------------------------------------
\* format!("{:.15e}", v) and bigdecimal
\* ------------------------------------------------------------------------

\* f64::DIGITS
F64_DIGITS == 15

\* The exact value of a normal v is Sig * 2^(exp - 1075): as a decimal it is
\* D / 10^p with D, p as below.
Sig(v) == AddN(Pow2(FracBitsF64), v.frac)
BinExp(v) == v.exp - ExpBias - FracBitsF64
DecD(v) == IF BinExp(v) >= 0 THEN MulPow2(Sig(v), BinExp(v))
           ELSE MulPow5(Sig(v), 0 - BinExp(v))
DecP(v) == IF BinExp(v) >= 0 THEN 0 ELSE 0 - BinExp(v)

\* d (with len decimal digits) rounded to keep digits, half to even, as core's
\* flt2dec format_exact rounds: [m, up] with m the kept digits and up = 1
\* when rounding carried into a further digit (m is then 10^(keep-1))
RoundDigits(d, len, keep) ==
    IF len <= keep THEN [m |-> MulPow10(d, keep - len), up |-> 0]
    ELSE LET cut  == len - keep
             q    == DivPow10(d, cut)
             rem2 == MulSmall(SubN(d, MulPow10(q, cut)), 2)
             c    == CmpN(rem2, MulPow10(<<1>>, cut))
             inc  == c = 1 \/ (c = 0 /\ ModSmall(q, 2) = 1)
             q1   == IF inc THEN AddN(q, <<1>>) ELSE q
         IN  IF DecLen(q1) > keep THEN [m |-> DivPow10(q1, 1), up |-> 1]
             ELSE [m |-> q1, up |-> 0]

\* format!("{:.15e}", v) for a normal v: the sign, the 16 digits d.ddddddddddddddd
\* as a natural, and the decimal exponent after the e
FormatE(v) ==
    LET len == DecLen(DecD(v))
        r   == RoundDigits(DecD(v), len, F64_DIGITS + 1)
    IN  [neg    |-> v.sign = 1,
         digits |-> r.m,
         exp    |-> len - 1 + r.up - DecP(v)]

\* BigDecimal::from_str of that string: the digits without the point are the
\* integer, the scale is the number of digits after the point less the exponent
BigDecimal_from_str(t) ==
    [int_val |-> SInt(t.neg, t.digits), scale |-> F64_DIGITS - t.exp]

\* impl From<f64> for BigDecimal
BigDecimal_from(v) == BigDecimal_from_str(FormatE(v))

\* n times BigDecimal::double: each doubles int_val and keeps the scale
double_times(b, n) ==
    [int_val |-> SInt(b.int_val.neg, MulPow2(b.int_val.mag, n)), scale |-> b.scale]

\* BigDecimal::into_bigint_and_exponent: the two fields as they are
into_bigint_and_exponent(b) == <<b.int_val, b.scale>>

\* BigInt::to_bytes_be: the sign and the magnitude's big-endian bytes
to_bytes_be(bi) ==
    <<IF bi.mag = <<>> THEN "NoSign" ELSE IF bi.neg THEN "Minus" ELSE "Plus",
      BytesBE(bi.mag)>>

\* ------------------------------------------------------------------------
\* The two backends
\* ------------------------------------------------------------------------

Backends == {"bls381", "openssl"}

BITS_IN_ZERO == 254

\* amcl_wrapper::constants::CurveOrder of BLS12-381, the order of the field
\* FieldElement computes in
CurveOrder ==
    from_hex_str(<<"7","3","E","D","A","7","5","3","2","9","9","D","7","D","4","8",
                   "3","3","3","9","D","8","0","8","0","9","A","1","D","8","0","5",
                   "5","3","B","D","A","4","0","2","F","F","F","E","5","B","F","E",
                   "F","F","F","F","F","F","F","F","0","0","0","0","0","0","0","1">>)

\* amcl_wrapper::constants::FieldElement_SIZE, in bytes
FieldElement_SIZE == 48

\* a FieldElement holds the canonical residue
FieldElement_from(n) == Pos(ModN(n, CurveOrder))

\* bls381_fieldelem::zero: FieldElement::one().shift_left(BITS_IN_ZERO)
zero_bls381 == FieldElement_from(MulPow2(<<1>>, BITS_IN_ZERO))

\* BigNumRef::set_bit: bit n of a becomes 1
set_bit(a, n) ==
    IF LeN(Pow2(n), ModN(a, Pow2(n + 1))) THEN a ELSE AddN(a, Pow2(n))

\* rsa_native::zero: BigNum::from_u32(1), then set_bit(BITS_IN_ZERO)
zero_openssl == Pos(set_bit(NatOf(1), BITS_IN_ZERO))

\* the literal of rsa_native::max, underscores and the nine-F group included
MaxLiteral ==
    LET f8 == <<"F", "F", "F", "F", "F", "F", "F", "F">>
        u  == <<"_">>
    IN  f8 \o u \o f8 \o u \o f8 \o u \o f8 \o u \o f8 \o u \o f8 \o u
           \o f8 \o <<"F">> \o u \o f8

\* rsa_native::max
max_openssl == Pos(from_hex_str(MaxLiteral))

\* the decimal digits of n, most significant first (format!("{}", v))
DecDigits(n) ==
    IF n = <<>> THEN <<0>>
    ELSE LET len == DecLen(n)
         IN  [i \in 1..len |->
                 LET k == len - i \* the digit of weight 10^k
                 IN  (n[(k \div 4) + 1] \div (10 ^ (k % 4))) % 10]

\* rsa_native::u64_to_bignum: BigNum::from_dec_str of the decimal rendering
u64_to_bignum(v) == Pos(FromDigitsBE(DecDigits(v), 10))

\* AttributeEncoder::zero_center
zero_center(bk) == IF bk = "bls381" THEN zero_bls381 ELSE zero_openssl

\* AttributeEncoder::max: the curve order for the field, max() for the BIGNUM
max(bk) == IF bk = "bls381" THEN Pos(CurveOrder) ELSE max_openssl

\* Output::from(u64)
from_u64(bk, n) == IF bk = "bls381" THEN FieldElement_from(n) ELSE u64_to_bignum(n)

\* Output + Output: FieldElement addition is modulo the curve order,
\* rsa_native::add is BN_add on signed integers of any size
add(bk, a, b) ==
    IF bk = "bls381" THEN FieldElement_from(AddN(a.mag, b.mag)) ELSE AddI(a, b)

\* sub with its operands exchanged
sub_swapped(bk, a, b) ==
    IF bk = "bls381"
    THEN FieldElement_from(AddN(ModN(b.mag, CurveOrder),
                                SubN(CurveOrder, ModN(a.mag, CurveOrder))))
    ELSE SubI(b, a)

\* Output - Output: a + (-b) modulo the curve order, or BN_sub
sub(bk, a, b) ==
    IF bk = "bls381"
    THEN FieldElement_from(AddN(ModN(a.mag, CurveOrder),
                                SubN(CurveOrder, ModN(b.mag, CurveOrder))))
    ELSE SubI(a, b)

\* the bytes may not exceed the field element's size: the length of the
\* padding, FieldElement_SIZE - bytes.len(), is a usize
from_vec_fits(bk, bytes) == bk = "bls381" => Len(bytes) <= FieldElement_SIZE

\* AttributeEncoder::from_vec: the bytes left-padded to FieldElement_SIZE and
\* reduced by FieldElement::from_bytes, or BigNum::from_slice
from_vec(bk, bytes) ==
    IF bk = "bls381"
    THEN FieldElement_from(
             FromBytesBE([i \in 1..(FieldElement_SIZE - Len(bytes)) |-> 0] \o bytes))
    ELSE Pos(FromBytesBE(bytes))

\* ------------------------------------------------------------------------
\* Results
\* ------------------------------------------------------------------------

NoVal == Pos(<<>>)
Ok(v)  == [kind |-> "ok", val |-> v]
Err    == [kind |-> "err", val |-> NoVal]
Panic  == [kind |-> "panic", val |-> NoVal]
None   == [kind |-> "none", val |-> NoVal]

\* ------------------------------------------------------------------------
\* AttributeEncoder: the numeric entry points
\* ------------------------------------------------------------------------

\* encode_normal with the positive arm centred as well: zero_center + f
encode_normal_centred(bk, v) ==
    LET b     == double_times(BigDecimal_from(v), BITS_IN_ZERO)
        bi    == into_bigint_and_exponent(b)[1]
        sb    == to_bytes_be(bi)
        sign  == sb[1]
        bytes == sb[2]
    IN  IF ~from_vec_fits(bk, bytes) THEN Panic
        ELSE IF sign = "NoSign" THEN Ok(zero_center(bk))
        ELSE IF sign = "Plus" THEN Ok(add(bk, zero_center(bk), from_vec(bk, bytes)))
        ELSE Ok(sub(bk, zero_center(bk), from_vec(bk, bytes)))

\* the Normal arm: scale, split into sign and bytes, rebuild, recentre
encode_normal(bk, v) ==
    LET b     == double_times(BigDecimal_from(v), BITS_IN_ZERO)
        bi    == into_bigint_and_exponent(b)[1]
        sb    == to_bytes_be(bi)
        sign  == sb[1]
        bytes == sb[2]
    IN  IF ~from_vec_fits(bk, bytes) THEN Panic
        ELSE IF sign = "NoSign" THEN Ok(zero_center(bk))
        ELSE IF sign = "Plus" THEN Ok(from_vec(bk, bytes))
        ELSE Ok(sub(bk, zero_center(bk), from_vec(bk, bytes)))

\* encode_from_f64 with the two infinities' sentinels exchanged
encode_from_f64_infswap(bk, v) ==
    CASE classify(v) = "Nan"       -> Ok(from_u64(bk, NatOf(1)))
      [] classify(v) = "Subnormal" -> Ok(from_u64(bk, NatOf(2)))
      [] classify(v) = "Zero"      -> Ok(zero_center(bk))
      [] classify(v) = "Infinite"  ->
            IF is_sign_positive(v)
            THEN Ok(from_u64(bk, NatOf(8)))
            ELSE Ok(sub(bk, max(bk), from_u64(bk, NatOf(9))))
      [] classify(v) = "Normal"    -> encode_normal(bk, v)

\* AttributeEncoder::encode_from_f64: a sentinel for what is not a number of
\* the scale, zero_center for zero, encode_normal for the rest
encode_from_f64(bk, v) ==
    CASE classify(v) = "Nan"       -> Ok(from_u64(bk, NatOf(1)))
      [] classify(v) = "Subnormal" -> Ok(from_u64(bk, NatOf(2)))
      [] classify(v) = "Zero"      -> Ok(zero_center(bk))
      [] classify(v) = "Infinite"  ->
            IF is_sign_positive(v)
            THEN Ok(sub(bk, max(bk), from_u64(bk, NatOf(9))))
            ELSE Ok(from_u64(bk, NatOf(8)))
      [] classify(v) = "Normal"    -> encode_normal(bk, v)

encode_from_isize(bk, value, checks) ==
    IF value.neg
    THEN LET n == NegIsize(value, checks)
         IN  IF n.panic THEN Panic
             ELSE Ok(sub(bk, zero_center(bk), from_u64(bk, AsU64(n.val))))
    ELSE Ok(add(bk, zero_center(bk), from_u64(bk, AsU64(value))))

encode_from_usize(bk, value) ==
    Ok(add(bk, zero_center(bk), from_u64(bk, value)))

\* ------------------------------------------------------------------------
\* chrono: RFC 3339 strings (sequences of one-character strings) and instants
\* ------------------------------------------------------------------------

DigitChars == <<"0", "1", "2", "3", "4", "5", "6", "7", "8", "9">>

IsDigit(c) == \E k \in 1..10 : DigitChars[k] = c

DigitVal(c) == (CHOOSE k \in 1..10 : DigitChars[k] = c) - 1

Ch(s, i) == IF 1 <= i /\ i <= Len(s) THEN s[i] ELSE ""

AllDigits(s, i, j) == \A k \in i..j : IsDigit(Ch(s, k))

Num2(s, i) == 10 * DigitVal(s[i]) + DigitVal(s[i + 1])

Num4(s, i) == 100 * Num2(s, i) + Num2(s, i + 2)

IsLeap(y) == y % 4 = 0 /\ (y % 100 # 0 \/ y % 400 = 0)

DaysInMonth(y, m) ==
    IF m = 2 THEN (IF IsLeap(y) THEN 29 ELSE 28)
    ELSE IF m \in {4, 6, 9, 11} THEN 30 ELSE 31

\* the days from 1970-01-01 to the civil date y-m-d (proleptic Gregorian)
DaysFromCivil(y, m, d) ==
    LET yy  == IF m <= 2 THEN y - 1 ELSE y
        era == yy \div 400
        yoe == yy - era * 400
        mp  == IF m > 2 THEN m - 3 ELSE m + 9
        doy == (153 * mp + 2) \div 5 + d - 1
        doe == yoe * 365 + yoe \div 4 - yoe \div 100 + doy
    IN  era * 146097 + doe - 719468

\* the length of the run of digits of s from position i on
DigitRun(s, i) ==
    CHOOSE k \in 0..Len(s) :
        /\ \A n \in 0..(k - 1) : IsDigit(Ch(s, i + n))
        /\ ~IsDigit(Ch(s, i + k))

\* the nanoseconds of a fraction of n digits starting at position i
RECURSIVE FracNanos(_, _, _)
FracNanos(s, i, n) ==
    IF n = 0 THEN 0
    ELSE IF n > 9 THEN FracNanos(s, i, 9)
    ELSE FracNanos(s, i, n - 1) + DigitVal(s[i + n - 1]) * 10 ^ (9 - n)

SecsPerDay == 86400

\* DateTime::parse_from_rfc3339: date "T" time [fraction] offset.  An
\* instant is [ok, days, sod, nanos]: the days since 1970-01-01 (UTC), the
\* second of that day and the nanoseconds of that second.  (A seconds field of
\* 60, the leap second, is outside the model.)
NoInstant == [ok |-> FALSE, days |-> 0, sod |-> 0, nanos |-> 0]

parse_from_rfc3339(s) ==
    LET fl   == IF Ch(s, 20) = "." THEN DigitRun(s, 21) ELSE 0
        o    == IF Ch(s, 20) = "." THEN 21 + fl ELSE 20
        zulu == Ch(s, o) \in {"Z", "z"} /\ Len(s) = o
        hhmm == /\ Ch(s, o) \in {"+", "-"}
                /\ AllDigits(s, o + 1, o + 2) /\ Ch(s, o + 3) = ":"
                /\ AllDigits(s, o + 4, o + 5) /\ Len(s) = o + 5
        shape == /\ AllDigits(s, 1, 4) /\ Ch(s, 5) = "-"
                 /\ AllDigits(s, 6, 7) /\ Ch(s, 8) = "-"
                 /\ AllDigits(s, 9, 10) /\ Ch(s, 11) \in {"T", "t"}
                 /\ AllDigits(s, 12, 13) /\ Ch(s, 14) = ":"
                 /\ AllDigits(s, 15, 16) /\ Ch(s, 17) = ":"
                 /\ AllDigits(s, 18, 19)
                 /\ (Ch(s, 20) = "." => fl >= 1)
                 /\ (zulu \/ hhmm)
    IN  IF ~shape THEN NoInstant
        ELSE
        LET y   == Num4(s, 1)
            mo  == Num2(s, 6)
            d   == Num2(s, 9)
            h   == Num2(s, 12)
            mi  == Num2(s, 15)
            sec == Num2(s, 18)
            oh  == IF zulu THEN 0 ELSE Num2(s, o + 1)
            om  == IF zulu THEN 0 ELSE Num2(s, o + 4)
            off == (IF Ch(s, o) = "-" THEN -1 ELSE 1) * (oh * 3600 + om * 60)
            utc == h * 3600 + mi * 60 + sec - off
        IN  IF /\ mo \in 1..12 /\ d \in 1..DaysInMonth(y, mo)
               /\ h <= 23 /\ mi <= 59 /\ sec <= 59 /\ oh <= 23 /\ om <= 59
            THEN [ok    |-> TRUE,
                  days  |-> DaysFromCivil(y, mo, d) + (utc \div SecsPerDay),
                  sod   |-> utc % SecsPerDay,
                  nanos |-> FracNanos(s, 21, fl)]
            ELSE NoInstant

\* DateTime::timestamp: the seconds since 1970-01-01T00:00:00Z, an i64
timestamp(dt) ==
    IF dt.days >= 0
    THEN Pos(AddN(MulSmall(NatOf(dt.days), SecsPerDay), NatOf(dt.sod)))
    ELSE SInt(TRUE, SubN(MulSmall(NatOf(0 - dt.days), SecsPerDay), NatOf(dt.sod)))

\* (dt - base).num_days(): the Duration dt - base in whole days, truncated
\* toward zero, an i64.  With the Duration as days * 86400 + sod seconds plus
\* nanos (0 <= sod < 86400, 0 <= nanos), num_seconds adds one second to a
\* negative Duration with nanos > 0, and the division by 86400 truncates.
num_days(dt, base) ==
    LET dn   == dt.nanos - base.nanos
        ds   == dt.sod - base.sod - (IF dn < 0 THEN 1 ELSE 0)
        days == dt.days - base.days + (ds \div SecsPerDay)
        sod  == ds % SecsPerDay
        part == sod > 0 \/ dn # 0
    IN  IF days >= 0 THEN Pos(NatOf(days))
        ELSE IF part THEN SInt(TRUE, NatOf(0 - days - 1))
        ELSE SInt(TRUE, NatOf(0 - days))

\* the string of the literal "1900-01-01T00:00:00.000+00:00"
BaseLiteral ==
    <<"1","9","0","0","-","0","1","-","0","1","T","0","0",":","0","0",":","0","0",
      ".","0","0","0","+","0","0",":","0","0">>

\* ------------------------------------------------------------------------
\* AttributeEncoder: the date entry points
\* ------------------------------------------------------------------------

encode_from_rfc3339_as_unixtimestamp(bk, value) ==
    LET dt == parse_from_rfc3339(value)
    IN  IF ~dt.ok THEN Err
        ELSE Ok(add(bk, zero_center(bk), from_u64(bk, AsU64(timestamp(dt)))))

encode_from_rfc3339_as_dayssince1900(bk, value) ==
    LET dt   == parse_from_rfc3339(value)
        base == parse_from_rfc3339(BaseLiteral)
    IN  IF ~dt.ok \/ ~base.ok THEN Err
        ELSE Ok(add(bk, zero_center(bk), from_u64(bk, AsU64(num_days(dt, base)))))

\* ------------------------------------------------------------------------
\* The inputs of the calls
\* ------------------------------------------------------------------------

\* doubles 1.f * 2^e for |e| <= MaxBinExp and FracBits leading fraction bits
MaxBinExp == 3
FracBits == 2
\* integers of magnitude up to MaxInt
MaxInt == 2
\* the first and the last MaxDay days of a year
MaxDay == 2

F64_MAX          == F64(0, ExpMax - 1, SubN(Pow2(FracBitsF64), <<1>>))
F64_MIN          == NegF(F64_MAX)
F64_EPSILON      == F64(0, ExpBias - FracBitsF64, <<>>)
F64_INFINITY     == F64(0, ExpMax, <<>>)
F64_NEG_INFINITY == F64(1, ExpMax, <<>>)
F64_NAN          == F64(0, ExpMax, Pow2(FracBitsF64 - 1))
F64_ZERO         == F64(0, 0, <<>>)
\* 1.33f32 (0x3FAA3D71) widened, and 1.33 (0x3FF547AE147AE148)
F32_1_33         == F32ToF64(0, ExpBiasF32, 2768241)
F64_1_33         ==
    F64(0, ExpBias, from_hex_str(<<"5","4","7","A","E","1","4","7","A","E","1","4","8">>))

DyadicFloats ==
    { F64(sg, ExpBias + e, MulPow2(NatOf(k), FracBitsF64 - FracBits)) :
        sg \in {0, 1}, e \in (0 - MaxBinExp)..MaxBinExp, k \in 0..(2 ^ FracBits - 1) }

NamedFloats ==
    LET pos == {F64_MAX, F64_EPSILON, F64_INFINITY, F64_NAN, F64_ZERO,
                F32_1_33, F64_1_33, F64(0, 0, <<1>>), F64(0, 0, SubN(Pow2(FracBitsF64), <<1>>))}
    IN  pos \cup {NegF(v) : v \in pos}

FloatInputs == DyadicFloats \cup NamedFloats

SignedInputs ==
    { SInt(sg = 1, NatOf(n)) : sg \in {0, 1}, n \in 0..MaxInt }
        \cup {ISIZE_MAX, ISIZE_MIN, AddI(ISIZE_MIN, Pos(<<1>>)), SubI(ISIZE_MAX, Pos(<<1>>))}

UnsignedInputs ==
    { NatOf(n) : n \in 0..MaxInt } \cup {USIZE_MAX, ISIZE_MAX.mag, ISIZE_MIN.mag}

Str2(n) == <<DigitChars[(n \div 10) + 1], DigitChars[(n % 10) + 1]>>

\* the string y-m-dTh:mi:s, then a fraction and an offset given as strings
DateStr(y, m, d, h, mi, sec, frac, off) ==
    Str2(y \div 100) \o Str2(y % 100) \o <<"-">> \o Str2(m) \o <<"-">> \o Str2(d)
        \o <<"T">> \o Str2(h) \o <<":">> \o Str2(mi) \o <<":">> \o Str2(sec)
        \o frac \o off

Utc    == <<"+", "0", "0", ":", "0", "0">>
Zulu   == <<"Z">>
West6  == <<"-", "0", "6", ":", "0", "0">>
East18 == <<"+", "1", "8", ":", "0", "0">>
Milli0 == <<".", "0", "0", "0">>
Half   == <<".", "5">>

\* the strings of the tests and of the specification's examples
ExampleDates ==
    { DateStr(2018, 1, 26, 18, 30, 9, <<".", "4", "5", "3">>, Utc),
      DateStr(2020, 1, 26, 0, 30, 9, Milli0, East18),
      DateStr(1970, 1, 1, 0, 0, 0, Milli0, Utc),
      DateStr(1982, 12, 20, 10, 45, 0, Milli0, West6),
      BaseLiteral }

\* strings that are not RFC 3339
MalformedDates ==
    { <<"1", "9", "0", "0">>,
      <<>>,
      DateStr(1970, 1, 1, 0, 0, 0, <<>>, <<>>),
      DateStr(1970, 13, 1, 0, 0, 0, <<>>, Zulu),
      DateStr(1900, 2, 29, 0, 0, 0, <<>>, Zulu),
      DateStr(1970, 1, 1, 24, 0, 0, <<>>, Zulu),
      DateStr(1970, 1, 1, 0, 0, 0, <<".">>, Zulu),
      DateStr(1970, 1, 1, 0, 0, 0, <<>>, <<"+", "0", "6">>) }

\* the days around the turn of the years before and at the two epochs
GridDates ==
    { DateStr(yd[1], yd[2], yd[3], t[1], t[2], t[3], frac, off) :
        yd \in { <<y, 1, d>> : y \in {1900, 1970, 2018}, d \in 1..MaxDay }
               \cup { <<y, 12, 32 - d>> : y \in {1899, 1969}, d \in 1..MaxDay },
        t \in { <<0, 0, 0>>, <<23, 59, 59>> },
        frac \in { <<>>, Half },
        off \in { Zulu, West6, East18 } }

DateInputs == ExampleDates \cup MalformedDates \cup GridDates

Calls ==
    [op : {"unixtimestamp", "dayssince1900"}, arg : DateInputs]
        \cup [op : {"f64"}, arg : FloatInputs]
        \cup [op : {"isize"}, arg : SignedInputs]
        \cup [op : {"usize"}, arg : UnsignedInputs]

\* ------------------------------------------------------------------------
\* The state machine: one call of one entry point of one backend
\* ------------------------------------------------------------------------

VARIABLES
    backend,         \* the backend the encoder is instantiated against
    overflow_checks, \* whether the build checks integer overflow
    op, arg,         \* the entry point called and its argument
    pc,              \* "call" before the call returns, "done" after
    result           \* what the call returned

vars == <<backend, overflow_checks, op, arg, pc, result>>

Init ==
    /\ backend \in Backends
    /\ overflow_checks \in BOOLEAN
    /\ \E c \in Calls : op = c.op /\ arg = c.arg
    /\ pc = "call"
    /\ result = None

Return(r) ==
    /\ result' = r
    /\ pc' = "done"
    /\ UNCHANGED <<backend, overflow_checks, op, arg>>

EncodeTimestamp ==
    /\ pc = "call" /\ op = "unixtimestamp"
    /\ Return(encode_from_rfc3339_as_unixtimestamp(backend, arg))

EncodeDaysSince1900 ==
    /\ pc = "call" /\ op = "dayssince1900"
    /\ Return(encode_from_rfc3339_as_dayssince1900(backend, arg))

EncodeF64 ==
    /\ pc = "call" /\ op = "f64"
    /\ Return(encode_from_f64(backend, arg))

EncodeIsize ==
    /\ pc = "call" /\ op = "isize"
    /\ Return(encode_from_isize(backend, arg, overflow_checks))

EncodeUsize ==
    /\ pc = "call" /\ op = "usize"
    /\ Return(encode_from_usize(backend, arg))

Next ==
    \/ EncodeTimestamp
    \/ EncodeDaysSince1900
    \/ EncodeF64
    \/ EncodeIsize
    \/ EncodeUsize

Spec == Init /\ [][Next]_vars

\* ------------------------------------------------------------------------
\* Properties
\* ------------------------------------------------------------------------

Done(o) == pc = "done" /\ op = o

Returned(o) == Done(o) /\ result.kind = "ok"

\* zero, or finite and not subnormal
Ordinary(v) == classify(v) \in {"Zero", "Normal"}

Nat256 == Pow2(256)

Sentinels(bk) ==
    <<Pos(NatOf(1)), Pos(NatOf(2)), Pos(NatOf(8)), SubI(max(bk), Pos(NatOf(9)))>>

\* C1: float order preservation.  For finite, non-subnormal doubles a < b,
\* encode_float(a) < encode_float(b) as integers: stated of the call made
\* (a is its argument) against every other input b, on either side.
C1_FloatOrder ==
    (Returned("f64") /\ Ordinary(arg)) =>
        \A b \in FloatInputs :
            Ordinary(b) =>
                /\ LtF(arg, b) => LtI(result.val, encode_from_f64(backend, b).val)
                /\ LtF(b, arg) => LtI(encode_from_f64(backend, b).val, result.val)

\* C2: the float sentinels.  NaN encodes to 1, a subnormal to 2, -inf to 8
\* and +inf to max - 9; the four are pairwise distinct, and no zero or normal
\* double encodes to any of them.
C2_Sentinels ==
    Done("f64") =>
        LET sn == Sentinels(backend)
        IN  /\ result.kind = "ok"
            /\ \A i, j \in 1..4 : i # j => sn[i] # sn[j]
            /\ classify(arg) = "Nan" => result.val = sn[1]
            /\ classify(arg) = "Subnormal" => result.val = sn[2]
            /\ (classify(arg) = "Infinite" /\ ~is_sign_positive(arg)) => result.val = sn[3]
            /\ (classify(arg) = "Infinite" /\ is_sign_positive(arg)) => result.val = sn[4]
            /\ Ordinary(arg) => \A i \in 1..4 : result.val # sn[i]

\* +inf has been encoded, to max - 9
C2_Witness ==
    /\ Done("f64") /\ arg = F64_INFINITY
    /\ result = Ok(Sentinels(backend)[4])

\* C3: boundedness.  Every integer an entry point returns is non-negative,
\* fits 256 bits and is strictly below the backend's maximum.
C3_Bounded ==
    (pc = "done" /\ result.kind = "ok") =>
        /\ ~result.val.neg
        /\ LtN(result.val.mag, Nat256)
        /\ LtI(result.val, max(backend))

\* C4: timestamp ordering.  The timestamp encoding is zero_center plus the
\* Unix epoch seconds of the instant, so that an earlier instant encodes
\* strictly smaller than a later one, on either side of 1970.
C4_TimestampOrder ==
    Returned("unixtimestamp") =>
        /\ result.val = AddI(zero_center(backend), timestamp(parse_from_rfc3339(arg)))
        /\ \A s \in DateInputs :
               LET t == parse_from_rfc3339(s)
               IN  (t.ok /\ LtI(timestamp(parse_from_rfc3339(arg)), timestamp(t))) =>
                       LtI(result.val,
                           encode_from_rfc3339_as_unixtimestamp(backend, s).val)

\* C5: days since 1900.  The encoding of a parsable string is zero_center + d
\* as an integer, d the whole-day difference to 1900-01-01T00:00:00Z truncated
\* toward zero: zero_center - |d| when d is negative.
C5_DaysSince1900 ==
    Returned("dayssince1900") =>
        result.val = AddI(zero_center(backend),
                          num_days(parse_from_rfc3339(arg), parse_from_rfc3339(BaseLiteral)))

\* C6: signed integers.  encode_signed_int(v) returns, for every v of the
\* signed type and without aborting, the integer zero_center + v, which for
\* v >= 0 is what encode_unsigned_int(v) returns.
C6_SignedExact ==
    Done("isize") =>
        /\ result.kind = "ok"
        /\ result.val = AddI(zero_center(backend), arg)
        /\ ~arg.neg => result = encode_from_usize(backend, arg.mag)

\* C7 as the specification states it: for a normal double v,
\* encode_f64(v) + encode_f64(-v) is 2 * zero_center.
C7_SumIsTwoZeroCenters ==
    (Returned("f64") /\ classify(arg) = "Normal") =>
        add(backend, result.val, encode_from_f64(backend, NegF(arg)).val)
            = add(backend, zero_center(backend), zero_center(backend))

\* C7 amended: for a normal double v, encode_f64(v) + encode_f64(-v) is
\* zero_center, once.
C7_SumIsZeroCenter ==
    (Returned("f64") /\ classify(arg) = "Normal") =>
        add(backend, result.val, encode_from_f64(backend, NegF(arg)).val)
            = zero_center(backend)

\* 1.33, the specification's instance, has been encoded
C7_Witness ==
    /\ Returned("f64") /\ arg = F64_1_33
    /\ encode_from_f64(backend, NegF(F64_1_33)).kind = "ok"

\* C8: failure semantics.  The date entry points return an error exactly
\* when the string does not parse, and otherwise an integer; the numeric entry
\* points return an integer for every input: no error, no abort.
C8_FailureSemantics ==
    pc = "done" =>
        IF op \in {"unixtimestamp", "dayssince1900"}
        THEN /\ result.kind \in {"ok", "err"}
             /\ result.kind = "err" <=> ~parse_from_rfc3339(arg).ok
        ELSE result.kind = "ok"

\* C9: the zero-center constant is 2^BITS_IN_ZERO in every backend: zero (as
\* an unsigned, a signed or a float) encodes to it, and the two backends
\* return the same integer.
C9_ZeroCenter ==
    /\ zero_center(backend) = Pos(Pow2(BITS_IN_ZERO))
    /\ (\/ Done("usize") /\ arg = <<>>
        \/ Done("isize") /\ arg = Pos(<<>>)
        \/ Done("f64") /\ classify(arg) = "Zero") =>
           /\ result = Ok(Pos(Pow2(BITS_IN_ZERO)))
           /\ \A bk \in Backends : zero_center(bk) = result.val

\* C10: float negation symmetry as the tests assert it.  In both backends,
\* for every normal double v up to f64::MAX, the backend's sum of
\* encode_float(-v) and encode_float(v) is zero_center, and subtracting an
\* encoding from itself leaves nothing.
C10_NegationSymmetry ==
    (Done("f64") /\ classify(arg) = "Normal") =>
        /\ result.kind = "ok"
        /\ \A bk \in Backends :
               LET res1 == encode_from_f64(bk, NegF(arg))
                   res2 == encode_from_f64(bk, arg)
               IN  /\ res1.kind = "ok" /\ res2.kind = "ok"
                   /\ add(bk, res1.val, res2.val) = zero_center(bk)
                   /\ sub(bk, res2.val, res2.val) = Pos(<<>>)

\* f64::MAX has been encoded
C10_Witness == Returned("f64") /\ arg = F64_MAX

====
